---- MODULE Spec2Model ----
(***************************************************************************)
(* Model of LOCAL_API (src/src/id3_variants_training/local_API.py): the    *)
(* split-path operations and the counting queries an ID3 tree driver calls.*)
(*                                                                         *)
(* The catalog (variant_list, indiv_list, popu_list, variant_name_list,    *)
(* ancestry_list) is the object state left by __init__.  Split paths are   *)
(* Python tuples of two list objects; the lists live in `heap`, a path is  *)
(* a pair of heap addresses, and `paths` holds the paths the driver keeps. *)
(* Python indices are 0-based: row idx is variant_list[idx + 1] here.      *)
(***************************************************************************)
EXTENDS Integers, Sequences, FiniteSets, TLC

VARIABLES variant_list, indiv_list, popu_list, variant_name_list, ancestry_list,
          heap, paths, op

catalog == <<variant_list, indiv_list, popu_list, variant_name_list, ancestry_list>>
vars == <<variant_list, indiv_list, popu_list, variant_name_list, ancestry_list,
          heap, paths, op>>

\* ---- bounds of the model ------------------------------------------------
MaxRows == 2
MaxVars == 2
MaxPaths == 5
MaxDepth == 2
MaxCells == 7

\* ---- vocabulary ---------------------------------------------------------
AllNames == <<"V1", "V2", "V3", "V4">>
AllIndiv == <<"I1", "I2", "I3", "I4">>
Labels == <<"A", "B">>
UnknownName == "Vx"
None == ""

Range(s) == {s[i] : i \in DOMAIN s}
Min(a, b) == IF a < b THEN a ELSE b

\* x in list
In(x, list) == \E i \in DOMAIN list : list[i] = x

\* list.index(x), 0-based, for x in list (Python raises ValueError otherwise)
index(list, x) ==
    (CHOOSE i \in DOMAIN list : list[i] = x /\ \A j \in 1..(i - 1) : list[j] # x) - 1

\* dict.fromkeys(keys, val)
fromkeys(keys, val) == [k \in Range(keys) |-> val]

\* d[k] += 1
Incr(d, k) == [d EXCEPT ![k] = @ + 1]

RECURSIVE SumSeq(_)
SumSeq(s) == IF s = <<>> THEN 0 ELSE Head(s) + SumSeq(Tail(s))

\* sum of the values of a dict whose keys are those of the sequence keys
RECURSIVE SumOver(_, _)
SumOver(d, keys) == IF keys = {} THEN 0
                    ELSE LET k == CHOOSE x \in keys : TRUE
                         IN d[k] + SumOver(d, keys \ {k})
DictSum(d) == SumOver(d, DOMAIN d)

\* ---- split paths --------------------------------------------------------
\* the value of a path: (variants, directions) read through the heap
PathVal(h, p) == <<h[p[1]], h[p[2]]>>

\* (list(split_path[0]), list(split_path[1])) with one pair appended by hand
Extended(val, name, direction) == <<Append(val[1], name), Append(val[2], direction)>>

\* create_split_path with w_split_path bound to the argument instead of a copy
create_split_path_alias(h, split_path, new_variant_name) ==
    LET h1 == Append(h, h[split_path[1]])
        h2 == Append(h1, h1[split_path[2]])
        wo == <<Len(h1), Len(h2)>>
        w  == split_path
        h3 == [h2 EXCEPT ![w[1]] = Append(@, new_variant_name)]
        h4 == [h3 EXCEPT ![wo[1]] = Append(@, new_variant_name)]
        h5 == [h4 EXCEPT ![w[2]] = Append(@, 1)]
        h6 == [h5 EXCEPT ![wo[2]] = Append(@, 0)]
    IN [heap |-> h6, w |-> w, wo |-> wo]

\* create_split_path: four fresh lists, then four appends
create_split_path(h, split_path, new_variant_name) ==
    LET h1 == Append(h, h[split_path[1]])
        h2 == Append(h1, h1[split_path[2]])
        w  == <<Len(h1), Len(h2)>>
        h3 == Append(h2, h2[split_path[1]])
        h4 == Append(h3, h3[split_path[2]])
        wo == <<Len(h3), Len(h4)>>
        h5 == [h4 EXCEPT ![w[1]] = Append(@, new_variant_name)]
        h6 == [h5 EXCEPT ![wo[1]] = Append(@, new_variant_name)]
        h7 == [h6 EXCEPT ![w[2]] = Append(@, 1)]
        h8 == [h7 EXCEPT ![wo[2]] = Append(@, 0)]
    IN [heap |-> h8, w |-> w, wo |-> wo]

\* ---- find_ignore_rows ---------------------------------------------------
\* Outcome of a call: [status |-> "ok", ret |-> value, scanned |-> n] when it
\* returns, [status |-> "ValueError", scanned |-> n] when list.index raises
\* (the locals are dropped, nothing is returned).  scanned counts the
\* iterations of the row loop of find_ignore_rows that were executed.
Raised(n) == [status |-> "ValueError", scanned |-> n]
Returned(v, n) == [status |-> "ok", ret |-> v, scanned |-> n]

\* the row loop without the `idx not in ignore_rows_idxs` test
RECURSIVE scan_rows_nodedupe(_, _, _, _)
scan_rows_nodedupe(idx, var_idx, direction, ignore_rows_idxs) ==
    IF idx >= Len(variant_list) THEN ignore_rows_idxs
    ELSE IF variant_list[idx + 1][var_idx + 1] # direction
         THEN scan_rows_nodedupe(idx + 1, var_idx, direction, Append(ignore_rows_idxs, idx))
         ELSE scan_rows_nodedupe(idx + 1, var_idx, direction, ignore_rows_idxs)

\* the row loop (lines 176-178) from row idx on; `is not` on the ints 0 and 1
\* is inequality
RECURSIVE scan_rows(_, _, _, _)
scan_rows(idx, var_idx, direction, ignore_rows_idxs) ==
    IF idx >= Len(variant_list) THEN ignore_rows_idxs
    ELSE LET variants == variant_list[idx + 1]
         IN IF ~In(idx, ignore_rows_idxs) /\ variants[var_idx + 1] # direction
            THEN scan_rows(idx + 1, var_idx, direction, Append(ignore_rows_idxs, idx))
            ELSE scan_rows(idx + 1, var_idx, direction, ignore_rows_idxs)

\* the constraint loop with the name lookup moved into the row loop: it
\* raises at the first row, and not at all without rows
RECURSIVE ignore_loop_lazy(_, _, _, _, _)
ignore_loop_lazy(k, vs, ds, ignore_rows_idxs, scanned) ==
    IF k > Min(Len(vs), Len(ds)) THEN Returned(ignore_rows_idxs, scanned)
    ELSE IF ~In(vs[k], variant_name_list)
         THEN IF Len(variant_list) = 0
              THEN ignore_loop_lazy(k + 1, vs, ds, ignore_rows_idxs, scanned)
              ELSE Raised(scanned + 1)
    ELSE ignore_loop_lazy(k + 1, vs, ds,
                          scan_rows(0, index(variant_name_list, vs[k]), ds[k], ignore_rows_idxs),
                          scanned + Len(variant_list))

\* the constraint loop with ignore_rows_idxs = [] inside the loop: only the
\* last constraint filters
RECURSIVE ignore_loop_reset(_, _, _, _, _)
ignore_loop_reset(k, vs, ds, ignore_rows_idxs, scanned) ==
    IF k > Min(Len(vs), Len(ds)) THEN Returned(ignore_rows_idxs, scanned)
    ELSE IF ~In(vs[k], variant_name_list) THEN Raised(scanned)
    ELSE ignore_loop_reset(k + 1, vs, ds,
                           scan_rows(0, index(variant_name_list, vs[k]), ds[k], <<>>),
                           scanned + Len(variant_list))

\* the constraint loop (lines 172-178) from constraint k of zip(vs, ds) on
RECURSIVE ignore_loop(_, _, _, _, _)
ignore_loop(k, vs, ds, ignore_rows_idxs, scanned) ==
    IF k > Min(Len(vs), Len(ds)) THEN Returned(ignore_rows_idxs, scanned)
    ELSE IF ~In(vs[k], variant_name_list) THEN Raised(scanned)
    ELSE LET var_idx == index(variant_name_list, vs[k])
         IN ignore_loop(k + 1, vs, ds,
                        scan_rows(0, var_idx, ds[k], ignore_rows_idxs),
                        scanned + Len(variant_list))

find_ignore_rows(split_path) == ignore_loop(1, split_path[1], split_path[2], <<>>, 0)

\* ---- split_subset -------------------------------------------------------
\* the row loop without the `if idx in ignore_rows_idxs: continue`
RECURSIVE subset_loop_noskip(_, _, _, _, _)
subset_loop_noskip(idx, ignore_rows_idxs, split_var, w_variant_dict, wo_variant_dict) ==
    IF idx >= Len(variant_list) THEN Returned(<<w_variant_dict, wo_variant_dict>>, 0)
    ELSE IF split_var = None
         THEN subset_loop_noskip(idx + 1, ignore_rows_idxs, split_var,
                                 w_variant_dict, wo_variant_dict)
    ELSE IF ~In(split_var, variant_name_list) THEN Raised(0)
    ELSE IF variant_list[idx + 1][index(variant_name_list, split_var) + 1] = 1
         THEN subset_loop_noskip(idx + 1, ignore_rows_idxs, split_var,
                                 Incr(w_variant_dict, popu_list[idx + 1]), wo_variant_dict)
         ELSE subset_loop_noskip(idx + 1, ignore_rows_idxs, split_var,
                                 w_variant_dict, Incr(wo_variant_dict, popu_list[idx + 1]))

\* the row loop with the `else` dropped: every eligible row counts as lacking
RECURSIVE subset_loop_both(_, _, _, _, _)
subset_loop_both(idx, ignore_rows_idxs, split_var, w_variant_dict, wo_variant_dict) ==
    IF idx >= Len(variant_list) THEN Returned(<<w_variant_dict, wo_variant_dict>>, 0)
    ELSE IF In(idx, ignore_rows_idxs) \/ split_var = None
         THEN subset_loop_both(idx + 1, ignore_rows_idxs, split_var,
                               w_variant_dict, wo_variant_dict)
    ELSE IF ~In(split_var, variant_name_list) THEN Raised(0)
    ELSE subset_loop_both(idx + 1, ignore_rows_idxs, split_var,
             IF variant_list[idx + 1][index(variant_name_list, split_var) + 1] = 1
             THEN Incr(w_variant_dict, popu_list[idx + 1]) ELSE w_variant_dict,
             Incr(wo_variant_dict, popu_list[idx + 1]))

\* the row loop (lines 214-224) from row idx on
RECURSIVE subset_loop(_, _, _, _, _)
subset_loop(idx, ignore_rows_idxs, split_var, w_variant_dict, wo_variant_dict) ==
    IF idx >= Len(variant_list) THEN Returned(<<w_variant_dict, wo_variant_dict>>, 0)
    ELSE IF In(idx, ignore_rows_idxs)
         THEN subset_loop(idx + 1, ignore_rows_idxs, split_var, w_variant_dict, wo_variant_dict)
    ELSE LET variants == variant_list[idx + 1]
             popu == popu_list[idx + 1]
         IN IF split_var # None
            THEN IF ~In(split_var, variant_name_list) THEN Raised(0)
                 ELSE LET f_var_idx == index(variant_name_list, split_var)
                      IN IF variants[f_var_idx + 1] = 1
                         THEN subset_loop(idx + 1, ignore_rows_idxs, split_var,
                                          Incr(w_variant_dict, popu), wo_variant_dict)
                         ELSE subset_loop(idx + 1, ignore_rows_idxs, split_var,
                                          w_variant_dict, Incr(wo_variant_dict, popu))
            ELSE subset_loop(idx + 1, ignore_rows_idxs, split_var, w_variant_dict, wo_variant_dict)

split_subset(split_path, split_var) ==
    LET ignore == find_ignore_rows(split_path)
    IN IF ignore.status # "ok" THEN Raised(ignore.scanned)
       ELSE LET out == subset_loop(0, ignore.ret, split_var,
                                   fromkeys(ancestry_list, 0), fromkeys(ancestry_list, 0))
            IN [out EXCEPT !.scanned = ignore.scanned]

\* ---- find_next_variant_counts -------------------------------------------
\* the inner loop when w_variant_list is [dict] * V: one dict shared by every
\* entry, incremented once per variant the row carries
count_row_shared(w_variant_list, variants, popu) ==
    [idx2 \in DOMAIN w_variant_list |->
        [w_variant_list[idx2] EXCEPT ![popu] = @ + SumSeq(variants)]]

\* the inner loop (lines 259-261) over one row: entry idx2 counts popu when
\* the row carries variant idx2
count_row(w_variant_list, variants, popu) ==
    [idx2 \in DOMAIN w_variant_list |->
        IF idx2 \in DOMAIN variants /\ variants[idx2] = 1
        THEN Incr(w_variant_list[idx2], popu) ELSE w_variant_list[idx2]]

\* the row loop (lines 254-261) from row idx on
RECURSIVE counts_loop(_, _, _)
counts_loop(idx, ignore_rows_idxs, w_variant_list) ==
    IF idx >= Len(variant_list) THEN w_variant_list
    ELSE IF In(idx, ignore_rows_idxs)
         THEN counts_loop(idx + 1, ignore_rows_idxs, w_variant_list)
    ELSE counts_loop(idx + 1, ignore_rows_idxs,
                     count_row(w_variant_list, variant_list[idx + 1], popu_list[idx + 1]))

find_next_variant_counts(split_path) ==
    LET w_variant_list == [i \in DOMAIN variant_name_list |-> fromkeys(ancestry_list, 0)]
        ignore == find_ignore_rows(split_path)
    IN IF ignore.status # "ok" THEN Raised(ignore.scanned)
       ELSE Returned(counts_loop(0, ignore.ret, w_variant_list), ignore.scanned)

\* ---- get_target_set, count_variants -------------------------------------
\* d[k] = d.get(k, 0) + 1
GetIncr(d, k) == IF k \in DOMAIN d THEN Incr(d, k) ELSE d @@ (k :> 1)

\* the loop with counts[i] = 1: presence instead of a count
RECURSIVE target_loop_flag(_, _)
target_loop_flag(i, counts) ==
    IF i > Len(popu_list) THEN counts
    ELSE target_loop_flag(i + 1, [counts EXCEPT ![popu_list[i]] = 1])

RECURSIVE target_loop(_, _)
target_loop(i, counts) ==
    IF i > Len(popu_list) THEN counts
    ELSE target_loop(i + 1, GetIncr(counts, popu_list[i]))

get_target_set == Returned(target_loop(1, fromkeys(ancestry_list, 0)), 0)

RECURSIVE count_cols(_, _, _)
count_cols(idx, variants, my_dict) ==
    IF idx >= Len(variants) THEN my_dict
    ELSE IF variants[idx + 1] = 1
         THEN count_cols(idx + 1, variants, GetIncr(my_dict, variant_name_list[idx + 1]))
         ELSE count_cols(idx + 1, variants, my_dict)

RECURSIVE count_loop(_, _)
count_loop(r, my_dict) ==
    IF r > Len(variant_list) THEN my_dict
    ELSE count_loop(r + 1, count_cols(0, variant_list[r], my_dict))

count_variants == Returned(count_loop(1, <<>>), 0)

\* ---- state machine ------------------------------------------------------
\* names a driver may put in a path or pass as candidate
PathNames == Range(variant_name_list) \cup {UnknownName}

RootPaths ==
    /\ heap = << <<>>, <<>> >>
    /\ paths = << <<1, 2>> >>
    /\ op = [name |-> "init", path |-> 0, var |-> None, out |-> [status |-> "ok"]]

\* the object after __init__: V variants, N individuals with one population
\* each, and the sorted universe of the mapping file, which holds every
\* population in use and possibly more; rows exist only when at least one
\* variant was read
Init ==
    /\ \E V \in 0..MaxVars, N \in 0..MaxRows :
          /\ V = 0 => N = 0
          /\ variant_name_list = SubSeq(AllNames, 1, V)
          /\ indiv_list = SubSeq(AllIndiv, 1, N)
          /\ variant_list \in [1..N -> [1..V -> {0, 1}]]
          /\ popu_list \in [1..N -> Range(Labels)]
    /\ ancestry_list = Labels
    /\ RootPaths

Call(name, p, var, out) == [name |-> name, path |-> p, var |-> var, out |-> out]

\* the driver calls create_split_path on a path it holds and keeps both results
CreateSplitPath(p, v) ==
    /\ Len(paths) + 2 <= MaxPaths
    /\ Len(heap[paths[p][1]]) < MaxDepth
    /\ LET r == create_split_path(heap, paths[p], v)
       IN /\ heap' = r.heap
          /\ paths' = paths \o <<r.w, r.wo>>
    /\ op' = Call("create_split_path", p, v, [status |-> "ok"])
    /\ UNCHANGED catalog

\* find_ignore_rows walking the path with split_path[0].pop(0): the argument
\* comes back empty
FindIgnoreRows_consuming(p) ==
    /\ op' = Call("find_ignore_rows", p, None, find_ignore_rows(PathVal(heap, paths[p])))
    /\ heap' = [heap EXCEPT ![paths[p][1]] = <<>>, ![paths[p][2]] = <<>>]
    /\ UNCHANGED <<catalog, paths>>

FindIgnoreRows(p) ==
    /\ op' = Call("find_ignore_rows", p, None, find_ignore_rows(PathVal(heap, paths[p])))
    /\ UNCHANGED <<catalog, heap, paths>>

SplitSubset(p, split_var) ==
    /\ op' = Call("split_subset", p, split_var, split_subset(PathVal(heap, paths[p]), split_var))
    /\ UNCHANGED <<catalog, heap, paths>>

FindNextVariantCounts(p) ==
    /\ op' = Call("find_next_variant_counts", p, None,
                  find_next_variant_counts(PathVal(heap, paths[p])))
    /\ UNCHANGED <<catalog, heap, paths>>

GetTargetSet ==
    /\ op' = Call("get_target_set", 0, None, get_target_set)
    /\ UNCHANGED <<catalog, heap, paths>>

CountVariants ==
    /\ op' = Call("count_variants", 0, None, count_variants)
    /\ UNCHANGED <<catalog, heap, paths>>

Next ==
    \/ \E p \in DOMAIN paths, v \in PathNames : CreateSplitPath(p, v)
    \/ \E p \in DOMAIN paths : FindIgnoreRows(p)
    \/ \E p \in DOMAIN paths, c \in PathNames \cup {None} : SplitSubset(p, c)
    \/ \E p \in DOMAIN paths : FindNextVariantCounts(p)
    \/ GetTargetSet
    \/ CountVariants

Spec == Init /\ [][Next]_vars

\* ---- the path algebra alone ---------------------------------------------
\* number of (variant, direction) pairs held by the driver's paths
Cells == SumSeq([i \in DOMAIN paths |-> Len(heap[paths[i][1]])])

\* the driver appends a pair to a path it holds, in place (list.append on both
\* lists of the tuple, as create_split_path does on its fresh copies)
AppendPath(p, v, d) ==
    /\ Len(heap[paths[p][1]]) < MaxDepth
    /\ Cells < MaxCells
    /\ heap' = [heap EXCEPT ![paths[p][1]] = Append(@, v), ![paths[p][2]] = Append(@, d)]
    /\ op' = Call("append", p, v, [status |-> "ok"])
    /\ UNCHANGED <<catalog, paths>>

\* the catalog of the worked example: four individuals, two variants
InitPaths ==
    /\ variant_name_list = <<"V1", "V2">>
    /\ indiv_list = AllIndiv
    /\ variant_list = << <<1, 0>>, <<1, 1>>, <<0, 0>>, <<0, 1>> >>
    /\ popu_list = <<"A", "A", "B", "B">>
    /\ ancestry_list = Labels
    /\ RootPaths

NextPaths ==
    \/ \E p \in DOMAIN paths, v \in PathNames : CreateSplitPath(p, v)
    \/ \E p \in DOMAIN paths, v \in PathNames, d \in {0, 1} : AppendPath(p, v, d)

SpecPaths == InitPaths /\ [][NextPaths]_vars

\* ---- claims -------------------------------------------------------------
Val(i) == PathVal(heap, paths[i])
Addrs(ps, i) == {ps[i][1], ps[i][2]}

\* C4: create_split_path(parent, v) returns the parent extended by (v, 1) and
\* by (v, 0), leaves every path already held (the parent included) with the
\* value it had, and the paths held never share a list: an append to one path
\* changes no other path.
C4_SplitPathsIndependent ==
    [][ /\ op'.name = "create_split_path" =>
             LET n == Len(paths)
                 parent == Val(op'.path)
             IN /\ Len(paths') = n + 2
                /\ PathVal(heap', paths'[n + 1]) = Extended(parent, op'.var, 1)
                /\ PathVal(heap', paths'[n + 2]) = Extended(parent, op'.var, 0)
                /\ \A i \in 1..n : PathVal(heap', paths'[i]) = Val(i)
        /\ op'.name = "append" =>
             \A i \in DOMAIN paths : i # op'.path => PathVal(heap', paths'[i]) = Val(i)
        /\ \A i, j \in DOMAIN paths' :
             /\ paths'[i][1] # paths'[i][2]
             /\ i # j => Addrs(paths', i) \cap Addrs(paths', j) = {}
      ]_vars

\* a child of a split was appended to after a second split of its sibling
C4_Witness ==
    /\ Len(paths) = 5
    /\ op.name = "append"
    /\ op.path = 2
    /\ Len(Val(2)[1]) = 2
    /\ Len(Val(3)[1]) = 1
    /\ Len(Val(1)[1]) = 0
    /\ Len(Val(5)[1]) = 2

\* ---- claims about the queries -------------------------------------------
N == Len(variant_list)
Rows == 0..(N - 1)
EmptyPath == << <<>>, <<>> >>
Known(vs) == \A k \in DOMAIN vs : In(vs[k], variant_name_list)

\* row idx meets constraint k of the path sp: its value in the column named
\* sp[1][k] is the required direction
Meets(idx, sp, k) ==
    \A c \in DOMAIN variant_name_list :
        variant_name_list[c] = sp[1][k] => variant_list[idx + 1][c] = sp[2][k]
Eligible(sp) == {idx \in Rows : \A k \in DOMAIN sp[1] : Meets(idx, sp, k)}

\* row idx carries the variant named x
Carries(idx, x) ==
    \E c \in DOMAIN variant_name_list : variant_name_list[c] = x /\ variant_list[idx + 1][c] = 1

Both(ret, popu) == ret[1][popu] + ret[2][popu]

\* C1: for a path whose variants are all known, find_ignore_rows returns a
\* duplicate-free list of row indices holding exactly the rows that violate at
\* least one constraint of the path; for the empty path the list is empty.
C1_IgnoreRowsExact ==
    (op.name = "find_ignore_rows" /\ Known(Val(op.path)[1])) =>
        /\ op.out.status = "ok"
        /\ LET ret == op.out.ret
           IN /\ \A i, j \in DOMAIN ret : i # j => ret[i] # ret[j]
              /\ Range(ret) = Rows \ Eligible(Val(op.path))
              /\ Val(op.path) = EmptyPath => ret = <<>>

\* a two-constraint path was filtered and a row violates both constraints
C1_Witness ==
    /\ op.name = "find_ignore_rows"
    /\ op.out.status = "ok"
    /\ Len(Val(op.path)[1]) = 2
    /\ \E idx \in Rows : ~Meets(idx, Val(op.path), 1) /\ ~Meets(idx, Val(op.path), 2)
    /\ Eligible(Val(op.path)) # {}

\* C2: entry i of find_next_variant_counts(path) is the with-variant mapping
\* of split_subset(path, variant_name_list[i]), keys and counts alike, and
\* the one call raises exactly when the other does.
C2_ScannerMatchesSplit ==
    op.name = "find_next_variant_counts" =>
        \A i \in DOMAIN variant_name_list :
            LET one == split_subset(Val(op.path), variant_name_list[i])
            IN /\ one.status = op.out.status
               /\ op.out.status = "ok" => op.out.ret[i] = one.ret[1]

\* the scanner ran on a path that excludes a carrier and keeps another
C2_Witness ==
    /\ op.name = "find_next_variant_counts"
    /\ op.out.status = "ok"
    /\ Len(Val(op.path)[1]) >= 1
    /\ Len(variant_name_list) = 2
    /\ \E idx \in Rows \ Eligible(Val(op.path)) : Carries(idx, variant_name_list[2])
    /\ \E popu \in DOMAIN op.out.ret[2] : op.out.ret[2][popu] = 1

\* C3: with a known path and a known candidate, split_subset counts every
\* eligible row once, in the with-variant mapping when it carries the
\* candidate and in the without-variant mapping otherwise, and no excluded
\* row; the counts of both mappings sum to the number of rows that
\* find_ignore_rows does not return.
C3_SplitCountsEligibleOnce ==
    (op.name = "split_subset" /\ In(op.var, variant_name_list) /\ Known(Val(op.path)[1])) =>
        /\ op.out.status = "ok"
        /\ LET ignored == Range(find_ignore_rows(Val(op.path)).ret)
               kept == Rows \ ignored
               ret == op.out.ret
           IN /\ \A popu \in Range(ancestry_list) :
                    /\ ret[1][popu] = Cardinality({idx \in kept :
                            popu_list[idx + 1] = popu /\ Carries(idx, op.var)})
                    /\ ret[2][popu] = Cardinality({idx \in kept :
                            popu_list[idx + 1] = popu /\ ~Carries(idx, op.var)})
              /\ DictSum(ret[1]) + DictSum(ret[2]) = Cardinality(kept)

\* a split ran with one row excluded, one counted as carrier
C3_Witness ==
    /\ op.name = "split_subset"
    /\ In(op.var, variant_name_list)
    /\ op.out.status = "ok"
    /\ Cardinality(Eligible(Val(op.path))) = 1
    /\ N = 2
    /\ DictSum(op.out.ret[1]) = 1

\* C5: a call whose path names an unknown variant, and a split_subset call
\* whose candidate is unknown, ends in the error outcome, whatever the matrix
\* and the path.
C5_UnknownVariantAlwaysRaises ==
    /\ (op.name \in {"find_ignore_rows", "split_subset", "find_next_variant_counts"}
          /\ ~Known(Val(op.path)[1])) => op.out.status = "ValueError"
    /\ (op.name = "split_subset" /\ op.var # None /\ ~In(op.var, variant_name_list))
          => op.out.status = "ValueError"

\* the call left no eligible row and still returned for an unknown candidate
C5_Observed ==
    /\ op.name = "split_subset"
    /\ op.var = UnknownName
    /\ N >= 1
    /\ op.out.status = "ok"

\* position of the first unknown variant of vs
FirstUnknown(vs) ==
    CHOOSE k \in DOMAIN vs :
        /\ ~In(vs[k], variant_name_list)
        /\ \A j \in 1..(k - 1) : In(vs[j], variant_name_list)

\* C6 as stated: when find_ignore_rows raises for an unknown variant, no row
\* has been scanned.
C6_RaisesBeforeAnyScan ==
    (op.name = "find_ignore_rows" /\ op.out.status = "ValueError") => op.out.scanned = 0

\* C6 amended: a path with an unknown variant makes find_ignore_rows raise
\* when it reaches the first such constraint: the rows have been scanned once
\* for each constraint before it and never for it or a later one, so no row
\* is scanned when the unknown variant comes first.
C6_RaisesAtFirstUnknown ==
    (op.name = "find_ignore_rows" /\ ~Known(Val(op.path)[1])) =>
        /\ op.out.status = "ValueError"
        /\ op.out.scanned = (FirstUnknown(Val(op.path)[1]) - 1) * N

\* the unknown variant came second and the rows were scanned for the first
C6_Witness ==
    /\ op.name = "find_ignore_rows"
    /\ op.out.status = "ValueError"
    /\ FirstUnknown(Val(op.path)[1]) = 2
    /\ op.out.scanned = N
    /\ N >= 1

IsPrefix(s, t) == Len(s) <= Len(t) /\ SubSeq(t, 1, Len(s)) = s
Extends(child, parent) == IsPrefix(parent[1], child[1]) /\ IsPrefix(parent[2], child[2])

\* C7: for every path held that the queried path extends, the rows
\* find_ignore_rows excludes for the shorter path are excluded for the longer
\* one, and for every known candidate and every population the has+lacks count
\* of split_subset under the longer path is at most that under the shorter.
C7_PathMonotonic ==
    /\ (op.name = "find_ignore_rows" /\ op.out.status = "ok") =>
          \A i \in DOMAIN paths : Extends(Val(op.path), Val(i)) =>
              LET short == find_ignore_rows(Val(i))
              IN /\ short.status = "ok"
                 /\ Range(short.ret) \subseteq Range(op.out.ret)
    /\ (op.name = "split_subset" /\ op.out.status = "ok" /\ In(op.var, variant_name_list)) =>
          \A i \in DOMAIN paths : Extends(Val(op.path), Val(i)) =>
              LET short == split_subset(Val(i), op.var)
              IN /\ short.status = "ok"
                 /\ \A popu \in Range(ancestry_list) :
                        Both(op.out.ret, popu) <= Both(short.ret, popu)

\* a two-constraint path was filtered; its one-constraint parent excludes a
\* row and the second constraint excludes another
C7_Witness ==
    /\ op.name = "find_ignore_rows"
    /\ op.out.status = "ok"
    /\ Len(op.out.ret) = 2
    /\ \E i \in DOMAIN paths :
          /\ Extends(Val(op.path), Val(i))
          /\ Len(Val(i)[1]) = 1
          /\ Len(find_ignore_rows(Val(i)).ret) = 1

\* C8: get_target_set is keyed by every label of ancestry_list, its counts
\* sum to the number of individuals, and for every known candidate it is the
\* population-wise sum of the two mappings of split_subset on the empty path.
C8_RootDistribution ==
    op.name = "get_target_set" =>
        LET counts == op.out.ret
        IN /\ op.out.status = "ok"
           /\ DOMAIN counts = Range(ancestry_list)
           /\ DictSum(counts) = Len(indiv_list)
           /\ \A x \in Range(variant_name_list) :
                 LET root == split_subset(EmptyPath, x)
                 IN /\ root.status = "ok"
                    /\ \A popu \in DOMAIN counts : counts[popu] = Both(root.ret, popu)

\* two individuals of one population were counted, after a split was made
C8_Witness ==
    /\ op.name = "get_target_set"
    /\ Len(paths) > 1
    /\ Len(variant_name_list) >= 1
    /\ \E popu \in DOMAIN op.out.ret : op.out.ret[popu] = 2

\* C9 as stated: the number of eligible rows plus the has+lacks counts of one
\* split_subset call is the number of individuals.
C9_EligiblePlusCounts ==
    (op.name = "split_subset" /\ In(op.var, variant_name_list) /\ op.out.status = "ok") =>
        (N - Len(find_ignore_rows(Val(op.path)).ret))
            + DictSum(op.out.ret[1]) + DictSum(op.out.ret[2]) = N

\* C9 amended: the number of rows find_ignore_rows excludes plus the
\* has+lacks counts of one split_subset call is the number of individuals.
C9_ExcludedPlusCounts ==
    (op.name = "split_subset" /\ In(op.var, variant_name_list) /\ Known(Val(op.path)[1])) =>
        /\ op.out.status = "ok"
        /\ Len(find_ignore_rows(Val(op.path)).ret)
             + DictSum(op.out.ret[1]) + DictSum(op.out.ret[2]) = Len(indiv_list)

\* a split ran with one row excluded and one row counted as non-carrier
C9_Witness ==
    /\ op.name = "split_subset"
    /\ In(op.var, variant_name_list)
    /\ op.out.status = "ok"
    /\ Len(find_ignore_rows(Val(op.path)).ret) = 1
    /\ DictSum(op.out.ret[2]) = 1

Queries == {"find_ignore_rows", "split_subset", "find_next_variant_counts",
            "get_target_set", "count_variants"}

\* the outcome of the call recorded in op, made again in the current state
Again ==
    CASE op.name = "find_ignore_rows" -> find_ignore_rows(Val(op.path))
      [] op.name = "split_subset" -> split_subset(Val(op.path), op.var)
      [] op.name = "find_next_variant_counts" -> find_next_variant_counts(Val(op.path))
      [] op.name = "get_target_set" -> get_target_set
      [] op.name = "count_variants" -> count_variants

====
